---- MODULE Spec2Model ----
(***************************************************************************)
(* A model of the camps-and-trees solver: Tile, Grid, Board and the five   *)
(* deduction rules, with Board::solve as a state machine.                  *)
(*                                                                         *)
(* Rows and columns are numbered from 0 as in the source; a Vec is a       *)
(* sequence, so the element with index i is the (i+1)-th of the sequence.  *)
(***************************************************************************)
EXTENDS Integers, Sequences, FiniteSets, TLC

(***************************************************************************)
(* Bounds of the model.                                                    *)
(***************************************************************************)
\* Largest side of a generated grid.
MaxN == 3
\* Largest number of Tree tiles in a generated grid.
MaxTrees == 3
\* Largest number of Grass or Camp tiles in a generated grid.
MaxGiven == 1
\* Largest number of tiles of a generated grid that are not Unassigned.
MaxAssigned == 3
\* Largest difference between the length of `columns` and the side of the grid.
ColumnSlack == 1
\* Largest number of Tree tiles in a grid the rules are called on in any order.
MaxRuleTrees == 2
\* Largest length of the vectors and of the rows of the grids given to Board::new.
MaxNewLen == 2
\* Largest number of characters of a text given to Grid::parse.
MaxTextLen == 4

(***************************************************************************)
(* tile.rs                                                                 *)
(***************************************************************************)
Unassigned == "Unassigned"
Grass == "Grass"
Camp == "Camp"
Tree == "Tree"
Tile == {Unassigned, Grass, Camp, Tree}

(***************************************************************************)
(* grid.rs                                                                 *)
(***************************************************************************)
\* Grid::num_rows
NumRows(g) == Len(g)

\* Grid::num_columns
NumColumns(g) == IF Len(g) = 0 THEN 0 ELSE Len(g[1])

\* The value Grid::get yields when the coordinates are out of bounds.
None == "None"

\* Grid::get
Get(g, row, column) ==
    IF row \in 0..(Len(g) - 1) /\ column \in 0..(Len(g[row + 1]) - 1)
    THEN g[row + 1][column + 1]
    ELSE None

\* impl Index<(usize, usize)> for Grid; used only where the index is in bounds.
At(g, row, column) == g[row + 1][column + 1]

\* impl IndexMut<(usize, usize)> for Grid, as an assignment of one Tile.
SetTile(g, row, column, t) == [g EXCEPT ![row + 1][column + 1] = t]

\* A subtraction that stops one short of the edge.
SaturatingSub1Short(x) == x

\* usize::saturating_sub(1)
SaturatingSub1(x) == IF x = 0 THEN 0 ELSE x - 1

\* The coordinates the two loops of Grid::set_camp range over.
Neighbourhood(row, column) ==
    (SaturatingSub1(row)..(row + 1)) \X (SaturatingSub1(column)..(column + 1))

\* A first loop that looks at the row and the column of the cell only.
SetCampErrOrthogonal(g, row, column) ==
    \E p \in Neighbourhood(row, column) :
        (p[1] = row \/ p[2] = column) /\ Get(g, p[1], p[2]) = Camp

\* Grid::set_camp, first loop: Err as soon as a Camp is found.
SetCampErr(g, row, column) ==
    \E p \in Neighbourhood(row, column) : Get(g, p[1], p[2]) = Camp

\* A second loop that turns every neighbour into Grass, whatever it holds.
SetCampFillAnyTile(g, row, column) ==
    LET placed == SetTile(g, row, column, Camp)
    IN  [r \in 1..Len(placed) |->
            [c \in 1..Len(placed[r]) |->
                IF /\ <<r - 1, c - 1>> \in Neighbourhood(row, column)
                   /\ <<r - 1, c - 1>> # <<row, column>>
                THEN Grass
                ELSE placed[r][c]]]

\* Grid::set_camp, the assignment and the second loop.
SetCampFill(g, row, column) ==
    LET placed == SetTile(g, row, column, Camp)
    IN  [r \in 1..Len(placed) |->
            [c \in 1..Len(placed[r]) |->
                IF /\ <<r - 1, c - 1>> \in Neighbourhood(row, column)
                   /\ placed[r][c] = Unassigned
                THEN Grass
                ELSE placed[r][c]]]

\* Grid::set_camp: ok is FALSE for Err, and then the grid is the argument.
SetCamp(g, row, column) ==
    IF SetCampErr(g, row, column)
    THEN [ok |-> FALSE, grid |-> g]
    ELSE [ok |-> TRUE, grid |-> SetCampFill(g, row, column)]

\* Grid::count_in_row
CountInRow(g, row, t) ==
    Cardinality({column \in 0..(NumColumns(g) - 1) : At(g, row, column) = t})

\* Grid::count_in_column
CountInColumn(g, column, t) ==
    Cardinality({row \in 0..(NumRows(g) - 1) : At(g, row, column) = t})

\* A surrounding_tiles that pushes the tile below before those at the sides.
SurroundingTilesBelowFirst(g, row, column) ==
    (IF row # 0 THEN <<(<<row - 1, column>>)>> ELSE <<>>)
    \o (IF row + 1 # NumRows(g) THEN <<(<<row + 1, column>>)>> ELSE <<>>)
    \o (IF column # 0 THEN <<(<<row, column - 1>>)>> ELSE <<>>)
    \o (IF column + 1 # NumColumns(g) THEN <<(<<row, column + 1>>)>> ELSE <<>>)

\* Grid::surrounding_tiles
SurroundingTiles(g, row, column) ==
    (IF row # 0 THEN <<(<<row - 1, column>>)>> ELSE <<>>)
    \o (IF column # 0 THEN <<(<<row, column - 1>>)>> ELSE <<>>)
    \o (IF column + 1 # NumColumns(g) THEN <<(<<row, column + 1>>)>> ELSE <<>>)
    \o (IF row + 1 # NumRows(g) THEN <<(<<row + 1, column>>)>> ELSE <<>>)

\* Grid::is_solved
IsSolved(g) ==
    \A r \in 1..Len(g) : \A c \in 1..Len(g[r]) : g[r][c] # Unassigned

(***************************************************************************)
(* A Board is a record [rows, columns, grid].  A rule yields the grid it   *)
(* leaves, the bool it returns, and the panic that ended it, if any.  After *)
(* a panic the other two fields carry no meaning.                          *)
(***************************************************************************)
\* No panic.
NoPanic == "none"
\* An index out of range (or the debug_assert of count_in_column).
IndexPanic == "index out of bounds"
\* `target - camps` below zero, see SubtractPanics.
OverflowPanic == "subtract with overflow"
\* possibilities.next().unwrap() in intersection, on an empty Vec.
UnwrapPanic == "unwrap on None"
\* assert!(trees.len() >= 1) or assert!(trees.len() <= 4) in associate_tree.
AssertTreesPanic == "assert trees.len()"

\* assert!(self.get(row, column).is_some()) of Grid::surrounding_tiles fails.
AssertInsidePanic == "assert get(row, column).is_some()"
\* assert_eq!(associations[r][c], NoCampAssociated) in associate_tree.
AssertEqPanic == "assert_eq NoCampAssociated"

Outcome(g, ch, p) == [grid |-> g, changed |-> ch, panic |-> p]

Started(g) == Outcome(g, FALSE, NoPanic)

Panicked(st) == st.panic # NoPanic

\* board.grid[(row, column)] panics when the index is out of range.
IndexPanics(g, row, column) == Get(g, row, column) = None

\* Grid::count_in_column panics for a column the grid does not have: the
\* debug_assert in a debug build, the index in a release build (the grids of
\* this model have at least one row).
CountInColumnPanics(g, column) == column >= NumColumns(g)

(***************************************************************************)
(* initialize_grass.rs                                                     *)
(***************************************************************************)
\* A Vec `tiles` that leaves out the tile to the left.
InitializeGrassTilesNoLeft(b, g, row, column) ==
    (IF row + 1 # Len(b.rows) THEN <<Get(g, row + 1, column)>> ELSE <<>>)
    \o (IF column + 1 # Len(b.columns) THEN <<Get(g, row, column + 1)>> ELSE <<>>)
    \o (IF row # 0 THEN <<Get(g, row - 1, column)>> ELSE <<>>)

\* The Vec `tiles` that initialize_grass collects around (row, column).
InitializeGrassTiles(b, g, row, column) ==
    (IF row + 1 # Len(b.rows) THEN <<Get(g, row + 1, column)>> ELSE <<>>)
    \o (IF column + 1 # Len(b.columns) THEN <<Get(g, row, column + 1)>> ELSE <<>>)
    \o (IF row # 0 THEN <<Get(g, row - 1, column)>> ELSE <<>>)
    \o (IF column # 0 THEN <<Get(g, row, column - 1)>> ELSE <<>>)

RECURSIVE InitializeGrassFrom(_, _, _, _)
\* The two nested loops of initialize_grass, resumed at (row, column).
InitializeGrassFrom(b, st, row, column) ==
    IF row = Len(b.rows) THEN st
    ELSE IF column = Len(b.columns) THEN InitializeGrassFrom(b, st, row + 1, 0)
    ELSE IF IndexPanics(st.grid, row, column)
    THEN Outcome(st.grid, st.changed, IndexPanic)
    ELSE IF At(st.grid, row, column) = Unassigned
    THEN LET tiles == InitializeGrassTiles(b, st.grid, row, column)
         IN  IF \E i \in 1..Len(tiles) : tiles[i] = None
             THEN Outcome(st.grid, st.changed, IndexPanic)
             ELSE IF \A i \in 1..Len(tiles) : tiles[i] # Tree
             THEN InitializeGrassFrom(
                      b, Outcome(SetTile(st.grid, row, column, Grass), TRUE, NoPanic),
                      row, column + 1)
             ELSE InitializeGrassFrom(b, st, row, column + 1)
    ELSE InitializeGrassFrom(b, st, row, column + 1)

\* initialize_grass
InitializeGrass(b) == InitializeGrassFrom(b, Started(b.grid), 0, 0)

(***************************************************************************)
(* fill_zeros.rs and fill_camps.rs                                         *)
(***************************************************************************)
RECURSIVE FillRowFromAnyTile(_, _, _, _, _)
\* A loop over the row that records a change for a tile it leaves alone too.
FillRowFromAnyTile(b, st, row, column, t) ==
    IF column = Len(b.columns) THEN st
    ELSE IF IndexPanics(st.grid, row, column)
    THEN Outcome(st.grid, st.changed, IndexPanic)
    ELSE IF At(st.grid, row, column) = Unassigned
    THEN FillRowFromAnyTile(
             b, Outcome(SetTile(st.grid, row, column, t), TRUE, NoPanic),
             row, column + 1, t)
    ELSE FillRowFromAnyTile(b, Outcome(st.grid, TRUE, NoPanic), row, column + 1, t)

RECURSIVE FillRowFrom(_, _, _, _, _)
\* `for column in 0..board.columns.len()`: an Unassigned tile of the row becomes t.
FillRowFrom(b, st, row, column, t) ==
    IF column = Len(b.columns) THEN st
    ELSE IF IndexPanics(st.grid, row, column)
    THEN Outcome(st.grid, st.changed, IndexPanic)
    ELSE IF At(st.grid, row, column) = Unassigned
    THEN FillRowFrom(b, Outcome(SetTile(st.grid, row, column, t), TRUE, NoPanic),
                     row, column + 1, t)
    ELSE FillRowFrom(b, st, row, column + 1, t)

RECURSIVE FillColumnFromOverGrass(_, _, _, _, _)
\* A loop over the column that writes over Grass as well.
FillColumnFromOverGrass(b, st, row, column, t) ==
    IF row = Len(b.rows) THEN st
    ELSE IF IndexPanics(st.grid, row, column)
    THEN Outcome(st.grid, st.changed, IndexPanic)
    ELSE IF At(st.grid, row, column) \in {Unassigned, Grass} /\ At(st.grid, row, column) # t
    THEN FillColumnFromOverGrass(
             b, Outcome(SetTile(st.grid, row, column, t), TRUE, NoPanic),
             row + 1, column, t)
    ELSE FillColumnFromOverGrass(b, st, row + 1, column, t)

RECURSIVE FillColumnFrom(_, _, _, _, _)
\* `for row in 0..board.rows.len()`: an Unassigned tile of the column becomes t.
FillColumnFrom(b, st, row, column, t) ==
    IF row = Len(b.rows) THEN st
    ELSE IF IndexPanics(st.grid, row, column)
    THEN Outcome(st.grid, st.changed, IndexPanic)
    ELSE IF At(st.grid, row, column) = Unassigned
    THEN FillColumnFrom(b, Outcome(SetTile(st.grid, row, column, t), TRUE, NoPanic),
                        row + 1, column, t)
    ELSE FillColumnFrom(b, st, row + 1, column, t)

RECURSIVE FillZerosRows(_, _, _)
\* The first loop of fill_zeros, resumed at row.
FillZerosRows(b, st, row) ==
    IF Panicked(st) \/ row = Len(b.rows) THEN st
    ELSE IF CountInRow(st.grid, row, Camp) = b.rows[row + 1]
    THEN FillZerosRows(b, FillRowFrom(b, st, row, 0, Grass), row + 1)
    ELSE FillZerosRows(b, st, row + 1)

RECURSIVE FillZerosColumnsCountingGrass(_, _, _)
\* A second loop that compares the Grass of a column with its target.
FillZerosColumnsCountingGrass(b, st, column) ==
    IF Panicked(st) \/ column = Len(b.columns) THEN st
    ELSE IF CountInColumnPanics(st.grid, column)
    THEN Outcome(st.grid, st.changed, IndexPanic)
    ELSE IF CountInColumn(st.grid, column, Grass) = b.columns[column + 1]
    THEN FillZerosColumnsCountingGrass(
             b, FillColumnFrom(b, st, 0, column, Grass), column + 1)
    ELSE FillZerosColumnsCountingGrass(b, st, column + 1)

RECURSIVE FillZerosColumns(_, _, _)
\* The second loop of fill_zeros, resumed at column.
FillZerosColumns(b, st, column) ==
    IF Panicked(st) \/ column = Len(b.columns) THEN st
    ELSE IF CountInColumnPanics(st.grid, column)
    THEN Outcome(st.grid, st.changed, IndexPanic)
    ELSE IF CountInColumn(st.grid, column, Camp) = b.columns[column + 1]
    THEN FillZerosColumns(b, FillColumnFrom(b, st, 0, column, Grass), column + 1)
    ELSE FillZerosColumns(b, st, column + 1)

\* fill_zeros
FillZeros(b) ==
    FillZerosColumns(b, FillZerosRows(b, Started(b.grid), 0), 0)

RECURSIVE FillCampsRows(_, _, _)
\* The first loop of fill_camps, resumed at row.
FillCampsRows(b, st, row) ==
    IF Panicked(st) \/ row = Len(b.rows) THEN st
    ELSE IF b.rows[row + 1]
              = CountInRow(st.grid, row, Unassigned) + CountInRow(st.grid, row, Camp)
    THEN FillCampsRows(b, FillRowFrom(b, st, row, 0, Camp), row + 1)
    ELSE FillCampsRows(b, st, row + 1)

RECURSIVE FillCampsColumns(_, _, _)
\* The second loop of fill_camps, resumed at column.
FillCampsColumns(b, st, column) ==
    IF Panicked(st) \/ column = Len(b.columns) THEN st
    ELSE IF CountInColumnPanics(st.grid, column)
    THEN Outcome(st.grid, st.changed, IndexPanic)
    ELSE IF b.columns[column + 1]
              = CountInColumn(st.grid, column, Unassigned)
                + CountInColumn(st.grid, column, Camp)
    THEN FillCampsColumns(b, FillColumnFrom(b, st, 0, column, Camp), column + 1)
    ELSE FillCampsColumns(b, st, column + 1)

\* fill_camps
FillCamps(b) ==
    FillCampsColumns(b, FillCampsRows(b, Started(b.grid), 0), 0)

(***************************************************************************)
(* intersection.rs                                                         *)
(***************************************************************************)
RECURSIVE ProcessRowKeepsShort(_, _, _, _)
\* A process_row that pushes the grid it holds at the end of the row.
ProcessRowKeepsShort(g, count, row, column) ==
    IF count = 0 THEN <<g>>
    ELSE IF column = NumColumns(g) THEN <<g>>
    ELSE (IF At(g, row, column) = Unassigned
          THEN LET b == SetCamp(g, row, column)
               IN  IF b.ok THEN ProcessRowKeepsShort(b.grid, count - 1, row, column + 1)
                   ELSE <<>>
          ELSE <<>>)
         \o ProcessRowKeepsShort(g, count, row, column + 1)

RECURSIVE ProcessRow(_, _, _, _)
\* process_row: the possibilities it pushes, in the order it pushes them.
ProcessRow(g, count, row, column) ==
    IF count = 0 THEN <<g>>
    ELSE IF column = NumColumns(g) THEN <<>>
    ELSE (IF At(g, row, column) = Unassigned
          THEN LET b == SetCamp(g, row, column)
               IN  IF b.ok THEN ProcessRow(b.grid, count - 1, row, column + 1) ELSE <<>>
          ELSE <<>>)
         \o ProcessRow(g, count, row, column + 1)

RECURSIVE ProcessColumn(_, _, _, _)
\* process_column: the possibilities it pushes, in the order it pushes them.
ProcessColumn(g, count, row, column) ==
    IF count = 0 THEN <<g>>
    ELSE IF row = NumRows(g) THEN <<>>
    ELSE (IF At(g, row, column) = Unassigned
          THEN LET b == SetCamp(g, row, column)
               IN  IF b.ok THEN ProcessColumn(b.grid, count - 1, row + 1, column) ELSE <<>>
          ELSE <<>>)
         \o ProcessColumn(g, count, row + 1, column)

\* A loop body that compares the tiles of the first row only.
IntersectWithFirstRow(grid, ngrid) ==
    [r \in 1..NumRows(grid) |->
        [c \in 1..Len(grid[r]) |->
            IF r = 1 /\ grid[r][c] # ngrid[r][c]
            THEN Unassigned
            ELSE grid[r][c]]]

\* The body of the loop `for ngrid in possibilities` of intersection.
IntersectWith(grid, ngrid) ==
    [r \in 1..NumRows(grid) |->
        [c \in 1..Len(grid[r]) |->
            IF c <= NumColumns(grid) /\ grid[r][c] # ngrid[r][c]
            THEN Unassigned
            ELSE grid[r][c]]]

RECURSIVE IntersectFrom(_, _, _)
\* The loop `for ngrid in possibilities` of intersection, resumed at the i-th.
IntersectFrom(grid, possibilities, i) ==
    IF i > Len(possibilities) THEN grid
    ELSE IntersectFrom(IntersectWith(grid, possibilities[i]), possibilities, i + 1)

\* intersection, for a non-empty Vec (unwrap panics on an empty one).
Intersection(possibilities) == IntersectFrom(possibilities[1], possibilities, 2)

\* `target - camps` on usize.  When camps exceed the target a debug build
\* panics at the subtraction; a release build wraps to 2^64 - (camps - target),
\* a count the enumeration can never bring to 0, so it collects no possibility
\* and the unwrap in intersection panics.  Both builds panic.
SubtractPanics(target, camps) == target < camps

\* Mutant of ApplyPossibilities: an empty Vec of possibilities leaves the
\* grid as it is instead of panicking.
ApplyPossibilitiesSkipEmpty(st, possibilities) ==
    IF possibilities = <<>>
    THEN st
    ELSE LET new_grid == Intersection(possibilities)
         IN  Outcome(new_grid, st.changed \/ st.grid # new_grid, NoPanic)

\* An iteration that forgets to record a change.
ApplyPossibilitiesKeepsFlag(st, possibilities) ==
    IF possibilities = <<>>
    THEN Outcome(st.grid, st.changed, UnwrapPanic)
    ELSE Outcome(Intersection(possibilities), st.changed, NoPanic)

\* One iteration of either loop of process_intersections, given the
\* possibilities collected for the line.
ApplyPossibilities(st, possibilities) ==
    IF possibilities = <<>>
    THEN Outcome(st.grid, st.changed, UnwrapPanic)
    ELSE LET new_grid == Intersection(possibilities)
         IN  Outcome(new_grid, st.changed \/ st.grid # new_grid, NoPanic)

\* The body of the first loop of process_intersections, for one row.
ProcessIntersectionsRow(b, st, row) ==
    IF SubtractPanics(b.rows[row + 1], CountInRow(st.grid, row, Camp))
    THEN Outcome(st.grid, st.changed, OverflowPanic)
    ELSE LET count == b.rows[row + 1] - CountInRow(st.grid, row, Camp)
         IN  ApplyPossibilities(st, ProcessRow(st.grid, count, row, 0))

\* The body of the second loop of process_intersections, for one column.
ProcessIntersectionsColumn(b, st, column) ==
    IF CountInColumnPanics(st.grid, column)
    THEN Outcome(st.grid, st.changed, IndexPanic)
    ELSE IF SubtractPanics(b.columns[column + 1], CountInColumn(st.grid, column, Camp))
    THEN Outcome(st.grid, st.changed, OverflowPanic)
    ELSE LET count == b.columns[column + 1] - CountInColumn(st.grid, column, Camp)
         IN  ApplyPossibilities(st, ProcessColumn(st.grid, count, 0, column))

RECURSIVE ProcessIntersectionsRows(_, _, _)
\* The first loop of process_intersections, resumed at row.
ProcessIntersectionsRows(b, st, row) ==
    IF Panicked(st) \/ row = Len(b.rows) THEN st
    ELSE ProcessIntersectionsRows(b, ProcessIntersectionsRow(b, st, row), row + 1)

RECURSIVE ProcessIntersectionsColumns(_, _, _)
\* The second loop of process_intersections, resumed at column.
ProcessIntersectionsColumns(b, st, column) ==
    IF Panicked(st) \/ column = Len(b.columns) THEN st
    ELSE ProcessIntersectionsColumns(
             b, ProcessIntersectionsColumn(b, st, column), column + 1)

\* process_intersections
ProcessIntersections(b) ==
    ProcessIntersectionsColumns(
        b, ProcessIntersectionsRows(b, Started(b.grid), 0), 0)

(***************************************************************************)
(* associate_trees.rs                                                      *)
(***************************************************************************)
\* enum Association
CampAt(row, column) == [tag |-> "CampAt", row |-> row, column |-> column]
NoCampAssociated == [tag |-> "NoCampAssociated"]
UnassignedCamp == [tag |-> "UnassignedCamp"]
NoTree == [tag |-> "NoTree"]
Unprocessed == [tag |-> "Unprocessed"]

\* Association::is_camp_at
IsCampAt(a) == a.tag = "CampAt"

\* generate_associations
GenerateAssociations(rows, columns) ==
    [r \in 1..rows |-> [c \in 1..columns |-> Unprocessed]]

\* The table with the entry of (row, column) replaced; the rest is kept.
Tag(st, row, column, a) ==
    [st EXCEPT !.associations = [@ EXCEPT ![row + 1][column + 1] = a]]

\* The Vec `trees` of associate_tree: the surrounding tiles that hold a Tree.
SurroundingTrees(g, row, column) ==
    LET IsTree(p) == At(g, p[1], p[2]) = Tree
    IN  SelectSeq(SurroundingTiles(g, row, column), IsTree)

RECURSIVE AssociateTree(_, _, _, _)
RECURSIVE AssociateSurroundingFrom(_, _, _, _)

\* associate_surrounding_trees, resumed at the i-th surrounding tile.
AssociateSurroundingFrom(g, tiles, i, st) ==
    IF Panicked(st) \/ i > Len(tiles) THEN st
    ELSE AssociateSurroundingFrom(
             g, tiles, i + 1, AssociateTree(g, tiles[i][1], tiles[i][2], st))

\* The body of `if associations[row][column] == Unprocessed` is entered for
\* (row, column); expanded lists the tiles it was entered for, in order.
Expand(st, row, column) ==
    [st EXCEPT !.expanded = Append(@, <<row, column>>)]

\* An associate_tree that leaves the Camp it associates tagged UnassignedCamp.
AssociateTreeKeepsCampTag(g, row, column, st) ==
    IF Panicked(st) \/ st.associations[row + 1][column + 1] # Unprocessed THEN st
    ELSE IF At(g, row, column) = Tree
    THEN AssociateSurroundingFrom(
             g, SurroundingTiles(g, row, column), 1,
             Tag(Expand(st, row, column), row, column, NoCampAssociated))
    ELSE IF At(g, row, column) = Camp
    THEN LET after == AssociateSurroundingFrom(
                          g, SurroundingTiles(g, row, column), 1,
                          Tag(Expand(st, row, column), row, column, UnassignedCamp))
             trees == SurroundingTrees(g, row, column)
         IN  IF Panicked(after) THEN after
             ELSE IF ~(Len(trees) >= 1 /\ Len(trees) <= 4)
             THEN [after EXCEPT !.panic = AssertTreesPanic]
             ELSE IF Len(trees) = 1
             THEN IF after.associations[trees[1][1] + 1][trees[1][2] + 1]
                        # NoCampAssociated
                  THEN [after EXCEPT !.panic = AssertEqPanic]
                  ELSE Tag(after, trees[1][1], trees[1][2], CampAt(row, column))
             ELSE after
    ELSE Tag(Expand(st, row, column), row, column, NoTree)

\* associate_tree; st is [associations, panic, expanded].
AssociateTree(g, row, column, st) ==
    IF Panicked(st) \/ st.associations[row + 1][column + 1] # Unprocessed THEN st
    ELSE IF At(g, row, column) = Tree
    THEN AssociateSurroundingFrom(
             g, SurroundingTiles(g, row, column), 1,
             Tag(Expand(st, row, column), row, column, NoCampAssociated))
    ELSE IF At(g, row, column) = Camp
    THEN LET after == AssociateSurroundingFrom(
                          g, SurroundingTiles(g, row, column), 1,
                          Tag(Expand(st, row, column), row, column, UnassignedCamp))
             trees == SurroundingTrees(g, row, column)
         IN  IF Panicked(after) THEN after
             ELSE IF ~(Len(trees) >= 1 /\ Len(trees) <= 4)
             THEN [after EXCEPT !.panic = AssertTreesPanic]
             ELSE IF Len(trees) = 1
             THEN IF after.associations[trees[1][1] + 1][trees[1][2] + 1]
                        # NoCampAssociated
                  THEN [after EXCEPT !.panic = AssertEqPanic]
                  ELSE Tag(Tag(after, trees[1][1], trees[1][2], CampAt(row, column)),
                           row, column, NoTree)
             ELSE after
    ELSE Tag(Expand(st, row, column), row, column, NoTree)

RECURSIVE AssociateAllFrom(_, _, _, _)
\* The first pair of loops of associate_trees, resumed at (row, column).
AssociateAllFrom(g, st, row, column) ==
    IF Panicked(st) \/ row = NumRows(g) THEN st
    ELSE IF column = NumColumns(g) THEN AssociateAllFrom(g, st, row + 1, 0)
    ELSE AssociateAllFrom(g, AssociateTree(g, row, column, st), row, column + 1)

\* The associations table associate_trees builds for the grid.
Associations(g) ==
    AssociateAllFrom(
        g,
        [associations |-> GenerateAssociations(NumRows(g), NumColumns(g)),
         panic |-> NoPanic, expanded |-> <<>>],
        0, 0)

\* A condition that asks for one surrounding Tree with its Camp, not for all.
AnyTreeBooked(g, associations, row, column) ==
    LET tiles == SurroundingTiles(g, row, column)
    IN  \E i \in 1..Len(tiles) :
            /\ At(g, tiles[i][1], tiles[i][2]) = Tree
            /\ IsCampAt(associations[tiles[i][1] + 1][tiles[i][2] + 1])

\* The condition under which associate_trees turns an Unassigned tile to Grass.
AllTreesBooked(g, associations, row, column) ==
    LET tiles == SurroundingTiles(g, row, column)
    IN  \A i \in 1..Len(tiles) :
            \/ At(g, tiles[i][1], tiles[i][2]) # Tree
            \/ IsCampAt(associations[tiles[i][1] + 1][tiles[i][2] + 1])

RECURSIVE AssociateFillFrom(_, _, _, _)
\* The second pair of loops of associate_trees, resumed at (row, column).
AssociateFillFrom(associations, st, row, column) ==
    IF row = NumRows(st.grid) THEN st
    ELSE IF column = NumColumns(st.grid)
    THEN AssociateFillFrom(associations, st, row + 1, 0)
    ELSE IF /\ At(st.grid, row, column) = Unassigned
            /\ AllTreesBooked(st.grid, associations, row, column)
    THEN AssociateFillFrom(
             associations, Outcome(SetTile(st.grid, row, column, Grass), TRUE, NoPanic),
             row, column + 1)
    ELSE AssociateFillFrom(associations, st, row, column + 1)

\* associate_trees
AssociateTrees(g) ==
    LET built == Associations(g)
    IN  IF Panicked(built)
        THEN Outcome(g, FALSE, built.panic)
        ELSE AssociateFillFrom(built.associations, Started(g), 0, 0)

(***************************************************************************)
(* board.rs                                                                *)
(***************************************************************************)
\* assert_eq!(grid.array.len(), rows.len()) in Board::new.
AssertRowsPanic == "assert_eq grid.array.len()"
\* assert!(grid.array.iter().all(|r| r.len() == rows.len())) in Board::new.
AssertRowLengthsPanic == "assert r.len() == rows.len()"

\* Grid::blank
Blank(rows, columns) == [r \in 1..rows |-> [c \in 1..columns |-> Unassigned]]

\* The two assertions of Board::new: it returns the Board when both hold and
\* panics otherwise.
BoardNewAccepts(rows, columns, g) ==
    /\ Len(g) = Len(rows)
    /\ \A r \in 1..Len(g) : Len(g[r]) = Len(rows)

(***************************************************************************)
(* State.  rows, columns and grid are the fields of the Board.  pc is the  *)
(* statement of Board::solve that runs next, ret what solve returned.      *)
(* The other variables record history: input is the grid solve was called  *)
(* with, top the grid at the start of the current iteration of the loop    *)
(* (at its `continue` or on entry), call the operation that ran last, with *)
(* its arguments, the grid it was given and what it returned.              *)
(***************************************************************************)
VARIABLES rows, columns, grid, pc, ret, input, top, call

vars == <<rows, columns, grid, pc, ret, input, top, call>>

board == [rows |-> rows, columns |-> columns, grid |-> grid]

\* A record of one operation: result is the bool a rule returns, or is_ok()
\* of what set_camp returns.
Call(op, row, column, before, result, panic) ==
    [op |-> op, row |-> row, column |-> column, before |-> before,
     result |-> result, panic |-> panic]

NoCall == Call("none", 0, 0, <<>>, FALSE, NoPanic)

(***************************************************************************)
(* The boards the model starts from.                                       *)
(***************************************************************************)
CountTiles(g, t) ==
    Cardinality({p \in (1..Len(g)) \X (1..NumColumns(g)) : g[p[1]][p[2]] = t})

\* The square grids of side n with at most MaxTrees Trees, at most MaxGiven
\* tiles that are Grass or Camp, and at most MaxAssigned of both together.
Grids(n) ==
    {g \in [1..n -> [1..n -> Tile]] :
        /\ CountTiles(g, Tree) <= MaxTrees
        /\ CountTiles(g, Grass) + CountTiles(g, Camp) <= MaxGiven
        /\ n * n - CountTiles(g, Unassigned) <= MaxAssigned}

RECURSIVE SumFrom(_, _)
SumFrom(v, i) == IF i > Len(v) THEN 0 ELSE v[i] + SumFrom(v, i + 1)

\* The number of Camps a target vector asks for.
Sum(v) == SumFrom(v, 1)

\* The target vectors of length n that ask for k Camps in all.
Targets(n, k) == {v \in [1..n -> 0..k] : Sum(v) = k}

\* The lengths of `columns` tried with a grid of side n.
ColumnLengths(n) == {m \in (n - ColumnSlack)..(n + ColumnSlack) : m >= 0}

\* The cells p and q are different and touch, diagonals included.
Adjacent(p, q) ==
    /\ p # q
    /\ p[1] - q[1] \in {-1, 0, 1}
    /\ p[2] - q[2] \in {-1, 0, 1}

\* No two Camps of g are adjacent, diagonals included.
NoAdjacentCamps(g) ==
    \A p, q \in (1..Len(g)) \X (1..NumColumns(g)) :
        (g[p[1]][p[2]] = Camp /\ g[q[1]][q[2]] = Camp) => ~Adjacent(p, q)

(***************************************************************************)
(* Board::solve                                                            *)
(***************************************************************************)
\* A puzzle has one Camp for each Tree, so the targets of the rows add up to
\* the number of Trees and so do those of the columns.  Board::new checks
\* neither that nor the length of `columns`.
InitSolve ==
    /\ \E n \in 1..MaxN :
          /\ grid \in Grids(n)
          /\ rows \in Targets(n, CountTiles(grid, Tree))
          /\ \E m \in ColumnLengths(n) : columns \in Targets(m, CountTiles(grid, Tree))
    /\ BoardNewAccepts(rows, columns, grid)
    /\ pc = "initialize_grass"
    /\ ret = "none"
    /\ input = grid
    /\ top = grid
    /\ call = NoCall

\* Mutant of AfterRule: `continue` whatever the rule returned.
AfterRuleAlwaysContinue(op, r, restart, next) ==
    /\ call' = Call(op, 0, 0, grid, r.changed, r.panic)
    /\ grid' = IF Panicked(r) THEN grid ELSE r.grid
    /\ pc' = IF Panicked(r) THEN "panicked"
             ELSE IF restart THEN "fill_zeros"
             ELSE next
    /\ top' = IF ~Panicked(r) /\ restart THEN r.grid ELSE top
    /\ UNCHANGED <<rows, columns, ret, input>>

\* Mutant of AfterRule: never `continue`, so the loop makes one pass.
AfterRuleNeverContinue(op, r, restart, next) ==
    /\ call' = Call(op, 0, 0, grid, r.changed, r.panic)
    /\ grid' = IF Panicked(r) THEN grid ELSE r.grid
    /\ pc' = IF Panicked(r) THEN "panicked" ELSE next
    /\ UNCHANGED <<rows, columns, ret, input, top>>

\* What solve does with the outcome r of the rule op: a panic ends the run,
\* a change restarts the loop (when restart), otherwise next runs.
AfterRule(op, r, restart, next) ==
    /\ call' = Call(op, 0, 0, grid, r.changed, r.panic)
    /\ grid' = IF Panicked(r) THEN grid ELSE r.grid
    /\ pc' = IF Panicked(r) THEN "panicked"
             ELSE IF restart /\ r.changed THEN "fill_zeros"
             ELSE next
    /\ top' = IF ~Panicked(r) /\ restart /\ r.changed THEN r.grid ELSE top
    /\ UNCHANGED <<rows, columns, ret, input>>

\* initialize_grass(self);
InitializeGrassStep ==
    /\ pc = "initialize_grass"
    /\ LET r == InitializeGrass(board)
       IN  /\ call' = Call("initialize_grass", 0, 0, grid, r.changed, r.panic)
           /\ grid' = IF Panicked(r) THEN grid ELSE r.grid
           /\ top' = IF Panicked(r) THEN top ELSE r.grid
           /\ pc' = IF Panicked(r) THEN "panicked" ELSE "fill_zeros"
    /\ UNCHANGED <<rows, columns, ret, input>>

\* fill_zeros(self);  its result is dropped.
FillZerosStep ==
    /\ pc = "fill_zeros"
    /\ AfterRule("fill_zeros", FillZeros(board), FALSE, "fill_camps")

\* Mutant of FillCampsStep: the result of fill_camps is dropped.
FillCampsStepNoContinue ==
    /\ pc = "fill_camps"
    /\ AfterRule("fill_camps", FillCamps(board), FALSE, "process_intersections")

\* if fill_camps(self) { continue; }
FillCampsStep ==
    /\ pc = "fill_camps"
    /\ AfterRule("fill_camps", FillCamps(board), TRUE, "process_intersections")

\* if process_intersections(self) { continue; }
ProcessIntersectionsStep ==
    /\ pc = "process_intersections"
    /\ AfterRule("process_intersections", ProcessIntersections(board), TRUE,
                 "associate_trees")

\* if associate_trees(self) { continue; } break;
AssociateTreesStep ==
    /\ pc = "associate_trees"
    /\ AfterRule("associate_trees", AssociateTrees(grid), TRUE, "is_solved")

\* Mutant of Return: on Err the board is rolled back to the input.
ReturnRollback ==
    /\ pc = "is_solved"
    /\ ret' = IF IsSolved(grid) THEN "Ok" ELSE "Err"
    /\ grid' = IF IsSolved(grid) THEN grid ELSE input
    /\ pc' = "returned"
    /\ UNCHANGED <<rows, columns, input, top, call>>

\* if self.is_solved() { Ok(()) } else { Err(..) }
Return ==
    /\ pc = "is_solved"
    /\ ret' = IF IsSolved(grid) THEN "Ok" ELSE "Err"
    /\ pc' = "returned"
    /\ UNCHANGED <<rows, columns, grid, input, top, call>>

Next ==
    \/ InitializeGrassStep
    \/ FillZerosStep
    \/ FillCampsStep
    \/ ProcessIntersectionsStep
    \/ AssociateTreesStep
    \/ Return

Spec == InitSolve /\ [][Next]_vars

(***************************************************************************)
(* Grid::set_camp, called any number of times on a grid.                   *)
(***************************************************************************)
InitGrid ==
    /\ \E n \in 1..MaxN : grid \in Grids(n)
    /\ rows = <<>>
    /\ columns = <<>>
    /\ pc = "grid"
    /\ ret = "none"
    /\ input = grid
    /\ top = <<>>
    /\ call = NoCall

\* grid.set_camp(row, column), for coordinates inside the grid.
SetCampCall ==
    /\ pc = "grid"
    /\ \E row \in 0..(NumRows(grid) - 1), column \in 0..(NumColumns(grid) - 1) :
          LET r == SetCamp(grid, row, column)
          IN  /\ grid' = r.grid
              /\ call' = Call("set_camp", row, column, grid, r.ok, NoPanic)
    /\ UNCHANGED <<rows, columns, pc, ret, input, top>>

SpecGrid == InitGrid /\ [][SetCampCall]_vars

(***************************************************************************)
(* The rules, called one after another in any order on a board.            *)
(***************************************************************************)
\* The square grids of side n with at most MaxRuleTrees Trees and no Grass
\* or Camp: the rules themselves put Grass and Camps on them.
RuleGrids(n) ==
    {g \in [1..n -> [1..n -> {Unassigned, Tree}]] : CountTiles(g, Tree) <= MaxRuleTrees}

InitRules ==
    /\ \E n \in 1..MaxN :
          /\ grid \in RuleGrids(n)
          /\ rows \in Targets(n, CountTiles(grid, Tree))
          /\ \E m \in ColumnLengths(n) : columns \in Targets(m, CountTiles(grid, Tree))
    /\ BoardNewAccepts(rows, columns, grid)
    /\ pc = "rules"
    /\ ret = "none"
    /\ input = <<>>
    /\ top = <<>>
    /\ call = NoCall

\* A call of the rule op with outcome r; after a panic nothing more is called.
\* Here ret tells whether the call comes right after a call of the same rule,
\* and then whether that call returned true ("repeat_changed") or false
\* ("repeat_idle").
RuleCall(op, r) ==
    /\ pc = "rules"
    /\ call' = Call(op, 0, 0, grid, r.changed, r.panic)
    /\ grid' = IF Panicked(r) THEN grid ELSE r.grid
    /\ pc' = IF Panicked(r) THEN "panicked" ELSE "rules"
    /\ ret' = IF call.op # op THEN "none"
              ELSE IF call.result THEN "repeat_changed"
              ELSE "repeat_idle"
    /\ UNCHANGED <<rows, columns, input, top>>

InitializeGrassCall == RuleCall("initialize_grass", InitializeGrass(board))

FillZerosCall == RuleCall("fill_zeros", FillZeros(board))

FillCampsCall == RuleCall("fill_camps", FillCamps(board))

ProcessIntersectionsCall ==
    RuleCall("process_intersections", ProcessIntersections(board))

AssociateTreesCall == RuleCall("associate_trees", AssociateTrees(grid))

NextRules ==
    \/ InitializeGrassCall
    \/ FillZerosCall
    \/ FillCampsCall
    \/ ProcessIntersectionsCall
    \/ AssociateTreesCall

SpecRules == InitRules /\ [][NextRules]_vars

(***************************************************************************)
(* The steps of process_intersections, one row or one column at a time.    *)
(***************************************************************************)
InitLines ==
    /\ \E n \in 1..MaxN :
          /\ grid \in RuleGrids(n)
          /\ rows \in Targets(n, CountTiles(grid, Tree))
          /\ \E m \in ColumnLengths(n) : columns \in Targets(m, CountTiles(grid, Tree))
    /\ BoardNewAccepts(rows, columns, grid)
    /\ pc = "lines"
    /\ ret = "none"
    /\ input = <<>>
    /\ top = <<>>
    /\ call = NoCall

\* One iteration of a loop of process_intersections, with outcome r; after
\* a panic nothing more is done.
LineStep(op, row, column, r) ==
    /\ call' = Call(op, row, column, grid, r.grid # grid, r.panic)
    /\ grid' = IF Panicked(r) THEN grid ELSE r.grid
    /\ pc' = IF Panicked(r) THEN "panicked" ELSE "lines"
    /\ UNCHANGED <<rows, columns, ret, input, top>>

\* An iteration of `for row in 0..board.rows.len()`.
RowStep ==
    /\ pc = "lines"
    /\ \E row \in 0..(Len(rows) - 1) :
          LineStep("row_step", row, 0,
                   ProcessIntersectionsRow(board, Started(grid), row))

\* An iteration of `for column in 0..board.columns.len()`.
ColumnStep ==
    /\ pc = "lines"
    /\ \E column \in 0..(Len(columns) - 1) :
          LineStep("column_step", 0, column,
                   ProcessIntersectionsColumn(board, Started(grid), column))

NextLines == RowStep \/ ColumnStep

SpecLines == InitLines /\ [][NextLines]_vars

(***************************************************************************)
(* Board::new and Board::new_blank.                                        *)
(***************************************************************************)
\* The vectors of length up to MaxNewLen with entries from S.
UpTo(S) == UNION {[1..n -> S] : n \in 0..MaxNewLen}

\* A Vec<Vec<Tile>> may have rows of different lengths; Board::new reads the
\* lengths only, so the tiles are all Unassigned here.
InitNew ==
    /\ rows \in UpTo({0, 1})
    /\ columns \in UpTo({0, 1})
    /\ grid \in UpTo(UpTo({Unassigned}))
    /\ pc = "new"
    /\ ret = "none"
    /\ input = grid
    /\ top = <<>>
    /\ call = NoCall

\* Board::new on the grid g: the Board is constructed or an assertion panics.
Construct(op, g) ==
    LET panic == IF Len(g) # Len(rows) THEN AssertRowsPanic
                 ELSE IF ~BoardNewAccepts(rows, columns, g) THEN AssertRowLengthsPanic
                 ELSE NoPanic
    IN  /\ grid' = g
        /\ call' = Call(op, 0, 0, g, panic = NoPanic, panic)
        /\ pc' = IF panic = NoPanic THEN "constructed" ELSE "panicked"
        /\ UNCHANGED <<rows, columns, ret, input, top>>

\* Board::new(rows, columns, grid)
BoardNew == pc = "new" /\ Construct("new", grid)

\* Board::new_blank(rows, columns)
BoardNewBlank == pc = "new" /\ Construct("new_blank", Blank(Len(rows), Len(columns)))

NextNew == BoardNew \/ BoardNewBlank

SpecNew == InitNew /\ [][NextNew]_vars

(***************************************************************************)
(* Grid::parse and Grid::debug.  A text is a sequence of characters, each  *)
(* a string of length 1.  Here input is the text given to parse, ret what  *)
(* parse returned ("Ok" or the message of its Err) and top the text debug  *)
(* wrote.                                                                  *)
(***************************************************************************)
\* The characters of the texts: those of the four tiles, the line break and
\* two characters that are no tile.
Chars == {" ", "-", "C", "T", "\n", "x", "y"}

\* Tile::parse; None for the Err.
TileParse(c) ==
    CASE c = " " -> Unassigned
      [] c = "-" -> Grass
      [] c = "C" -> Camp
      [] c = "T" -> Tree
      [] OTHER -> None

\* The Err of Tile::parse: format!("Couldn't parse tile: '{}'", c).
ParseError(c) == "Couldn't parse tile: '" \o c \o "'"

\* impl Debug for Tile
TileDebug(t) ==
    CASE t = Unassigned -> " "
      [] t = Grass -> "-"
      [] t = Camp -> "C"
      [] t = Tree -> "T"

RECURSIVE ParseFrom(_, _, _, _)
\* The loop of Grid::parse, resumed at the i-th character with the rows
\* pushed so far and the row being read; [ret, grid].
ParseFrom(s, i, g, row) ==
    IF i > Len(s) THEN [ret |-> "Ok", grid |-> Append(g, row)]
    ELSE IF s[i] = "\n" THEN ParseFrom(s, i + 1, Append(g, row), <<>>)
    ELSE IF TileParse(s[i]) = None THEN [ret |-> ParseError(s[i]), grid |-> <<>>]
    ELSE ParseFrom(s, i + 1, g, Append(row, TileParse(s[i])))

\* Grid::parse
Parse(s) == ParseFrom(s, 1, <<>>, <<>>)

RECURSIVE DebugRow(_, _)
\* The inner loop of fmt: the tiles of a row from the i-th on.
DebugRow(r, i) == IF i > Len(r) THEN <<>> ELSE <<TileDebug(r[i])>> \o DebugRow(r, i + 1)

RECURSIVE DebugEveryRowEnded(_, _)
\* A fmt that writes a line break after every row.
DebugEveryRowEnded(g, row) ==
    IF row > Len(g) THEN <<>>
    ELSE DebugRow(g[row], 1) \o <<"\n">> \o DebugEveryRowEnded(g, row + 1)

RECURSIVE DebugFrom(_, _)
\* The outer loop of fmt, resumed at the row-th row (counted from 1).
DebugFrom(g, row) ==
    IF row > Len(g) THEN <<>>
    ELSE (IF row # 1 THEN <<"\n">> ELSE <<>>)
         \o DebugRow(g[row], 1) \o DebugFrom(g, row + 1)

\* Grid::debug
Debug(g) == DebugFrom(g, 1)

InitText ==
    /\ \E n \in 0..MaxTextLen : input \in [1..n -> Chars]
    /\ rows = <<>>
    /\ columns = <<>>
    /\ grid = <<>>
    /\ pc = "text"
    /\ ret = "none"
    /\ top = <<>>
    /\ call = NoCall

\* Grid::parse(input)
ParseCall ==
    /\ pc = "text"
    /\ LET r == Parse(input)
       IN  /\ ret' = r.ret
           /\ grid' = r.grid
           /\ pc' = IF r.ret = "Ok" THEN "parsed" ELSE "failed"
           /\ call' = Call("parse", 0, 0, <<>>, r.ret = "Ok", NoPanic)
    /\ UNCHANGED <<rows, columns, input, top>>

\* grid.debug(), on the grid parse returned
DebugCall ==
    /\ pc = "parsed"
    /\ top' = Debug(grid)
    /\ pc' = "encoded"
    /\ call' = Call("debug", 0, 0, grid, TRUE, NoPanic)
    /\ UNCHANGED <<rows, columns, grid, ret, input>>

NextText == ParseCall \/ DebugCall

SpecText == InitText /\ [][NextText]_vars

(***************************************************************************)
(* Board::solve on boards whose column targets need not add up to the      *)
(* number of Trees when the columns vector does not match the grid.        *)
(***************************************************************************)
\* The target vectors of length n that ask for k Camps at most.
TargetsUpTo(n, k) == {v \in [1..n -> 0..k] : Sum(v) <= k}

InitSolveAny ==
    /\ \E n \in 1..MaxN :
          /\ grid \in Grids(n)
          /\ rows \in Targets(n, CountTiles(grid, Tree))
          /\ \E m \in ColumnLengths(n) :
                columns \in IF m = n
                            THEN Targets(m, CountTiles(grid, Tree))
                            ELSE TargetsUpTo(m, CountTiles(grid, Tree))
    /\ BoardNewAccepts(rows, columns, grid)
    /\ pc = "initialize_grass"
    /\ ret = "none"
    /\ input = grid
    /\ top = grid
    /\ call = NoCall

SpecSolveAny == InitSolveAny /\ [][Next]_vars

(***************************************************************************)
(* Grid::surrounding_tiles.  Grid::new and Grid::parse take rows of any    *)
(* lengths, so the grids here are the tables of up to MaxN rows of up to   *)
(* MaxN tiles each; top is the Vec the call returned.                      *)
(***************************************************************************)
AnyGrids ==
    UNION {[1..n -> UNION {[1..m -> {Unassigned}] : m \in 0..MaxN}] : n \in 0..MaxN}

InitTiles ==
    /\ grid \in AnyGrids
    /\ rows = <<>>
    /\ columns = <<>>
    /\ pc = "tiles"
    /\ ret = "none"
    /\ input = grid
    /\ top = <<>>
    /\ call = NoCall

\* grid.surrounding_tiles(row, column)
SurroundingTilesCall ==
    /\ pc = "tiles"
    /\ \E row \in 0..MaxN, column \in 0..MaxN :
          IF Get(grid, row, column) = None
          THEN /\ call' = Call("surrounding_tiles", row, column, grid, FALSE,
                               AssertInsidePanic)
               /\ pc' = "panicked"
               /\ top' = top
          ELSE /\ call' = Call("surrounding_tiles", row, column, grid, TRUE, NoPanic)
               /\ pc' = pc
               /\ top' = SurroundingTiles(grid, row, column)
    /\ UNCHANGED <<rows, columns, grid, ret, input>>

SpecTiles == InitTiles /\ [][SurroundingTilesCall]_vars

(***************************************************************************)
(* Vocabulary of the properties.                                           *)
(***************************************************************************)
\* The four rules of the loop of solve.
LoopRules == {"fill_zeros", "fill_camps", "process_intersections", "associate_trees"}

\* The statement that follows a rule of the loop when it does not `continue`.
Following(op) ==
    CASE op = "fill_zeros" -> "fill_camps"
      [] op = "fill_camps" -> "process_intersections"
      [] op = "process_intersections" -> "associate_trees"
      [] op = "associate_trees" -> "is_solved"

\* Every tile that is assigned in a has the same value in b.
Refines(a, b) ==
    \A r \in 1..Len(a) : \A c \in 1..Len(a[r]) :
        a[r][c] # Unassigned => b[r][c] = a[r][c]

\* solve has returned to its caller.
Returned == pc = "returned"

\* The row and column targets are met exactly.
TargetsMet(b) ==
    /\ \A row \in 0..(Len(b.rows) - 1) :
           CountInRow(b.grid, row, Camp) = b.rows[row + 1]
    /\ \A column \in 0..(Len(b.columns) - 1) :
           CountInColumn(b.grid, column, Camp) = b.columns[column + 1]

\* The rule leaves the board as it is and says so.
NoChange(r) == ~Panicked(r) /\ ~r.changed /\ r.grid = grid

(***************************************************************************)
(* Properties of Board::solve.                                             *)
(***************************************************************************)
\* C1: when solve starts from a grid without two adjacent Camps (diagonals
\* included), no state reached during solve has two adjacent Camps.
C1_NoAdjacentCampsDuringSolve ==
    NoAdjacentCamps(input) => NoAdjacentCamps(grid)

\* C2: solve returns Ok exactly when the grid at loop exit has no Unassigned
\* tile and Err otherwise, and the board the caller holds then is the one the
\* loop ended with: it is the grid the last rule left, every tile assigned in
\* the input has kept its value, and so has every tile assigned at the start
\* of the last iteration.
C2_ReturnAndPartialBoard ==
    Returned =>
        /\ ret = (IF IsSolved(grid) THEN "Ok" ELSE "Err")
        /\ call.op = "associate_trees" /\ ~call.result /\ grid = call.before
        /\ Refines(input, grid)
        /\ Refines(top, grid)

\* C2, witness: solve returned Err with deductions on the board and with a
\* Grass or Camp tile of the input among its tiles.
C2_Witness ==
    /\ Returned /\ ret = "Err"
    /\ grid # input
    /\ CountTiles(input, Grass) + CountTiles(input, Camp) > 0

\* C3: solve ends by returning Ok or Err for every board Board::new accepts;
\* it never panics.
C3_NeverPanics == pc # "panicked"

\* C4: an iteration of the loop that ends in `continue` leaves strictly fewer
\* Unassigned tiles than the iteration started with, so the loop cannot go on
\* forever.
C4_RestartDecreasesUnassigned ==
    [][(pc \in LoopRules /\ pc' = "fill_zeros")
          => CountTiles(grid', Unassigned) < CountTiles(top, Unassigned)]_vars

\* C4, witness: the loop is in its third iteration at least (two restarts
\* are behind it).
C4_Witness ==
    /\ pc = "fill_zeros" /\ call.op \in LoopRules
    /\ CountTiles(top, Unassigned) + 2 <= CountTiles(input, Unassigned)
    /\ CountTiles(call.before, Unassigned) > CountTiles(top, Unassigned)

\* C5 as stated: after any of the four rules of the loop, FillZeros runs next
\* when the rule reported a change and the following rule runs next when it
\* did not.
C5_RestartAfterAnyChange ==
    (call.op \in LoopRules /\ pc # "panicked") =>
        pc = (IF call.result THEN "fill_zeros" ELSE Following(call.op))

\* C5 as amended: FillZeros is always followed by FillCamps, whether or not
\* it changed the board; after FillCamps, ProcessIntersections or
\* AssociateTrees, FillZeros runs next when the rule reported a change and
\* the following statement runs next when it did not.
C5_RestartAfterChangeExceptFillZeros ==
    (call.op \in LoopRules /\ pc \notin {"panicked", "returned"}) =>
        pc = (IF call.result /\ call.op # "fill_zeros"
              THEN "fill_zeros"
              ELSE Following(call.op))

\* C5, witness: FillZeros changed the board and FillCamps runs next.
C5_Witness ==
    call.op = "fill_zeros" /\ call.result /\ pc = "fill_camps"

\* C6: when solve has returned, each of the four rules of the loop, invoked
\* on the board, reports no change and leaves the grid as it is.
C6_ReturnedBoardIsFixedPoint ==
    Returned =>
        /\ NoChange(FillZeros(board))
        /\ NoChange(FillCamps(board))
        /\ NoChange(ProcessIntersections(board))
        /\ NoChange(AssociateTrees(grid))

\* C6, witness: solve returned after at least one restart of the loop.
C6_Witness ==
    Returned /\ top # input /\ CountTiles(grid, Camp) > 0

\* C7: when solve returns Ok for an input grid without Camps, every row and
\* every column holds exactly its target number of Camps.
C7_OkMeetsTargets ==
    (Returned /\ ret = "Ok" /\ CountTiles(input, Camp) = 0) => TargetsMet(board)

\* C7, witness: solve returned Ok on a board it placed two Camps on, not
\* adjacent to each other.
C7_Witness ==
    /\ Returned /\ ret = "Ok"
    /\ CountTiles(input, Camp) = 0
    /\ CountTiles(grid, Camp) >= 2
    /\ NoAdjacentCamps(grid)

(***************************************************************************)
(* Properties of the rules and of Grid::set_camp.                          *)
(***************************************************************************)
\* The board has a target for each row and for each column of its grid.
TargetsMatchGrid == Len(rows) = NumRows(grid) /\ Len(columns) = NumColumns(grid)

\* No row and no column of g holds more Camps than its target.
WithinTargets(rs, cs, g) ==
    /\ \A row \in 0..(Len(rs) - 1) : CountInRow(g, row, Camp) <= rs[row + 1]
    /\ \A column \in 0..(Len(cs) - 1) :
           CountInColumn(g, column, Camp) <= cs[column + 1]

\* C8: when no row and no column holds more Camps than its target before a
\* call of InitializeGrass, FillZeros, FillCamps, ProcessIntersections or
\* AssociateTrees, none does after the call (stated for the boards that have
\* a target for each row and column of the grid, where it fails already).
C8_RulesKeepCampsWithinTargets ==
    (call.op # "none" /\ pc # "panicked" /\ TargetsMatchGrid
        /\ WithinTargets(rows, columns, call.before))
    => WithinTargets(rows, columns, grid)

\* C9: after any sequence of set_camp calls on a grid that had no two
\* adjacent Camps, no Camp has a Camp among its eight neighbours.
C9_SetCampKeepsCampsApart ==
    (pc = "grid" /\ NoAdjacentCamps(input)) =>
        \A r \in 1..Len(grid) : \A c \in 1..Len(grid[r]) :
            grid[r][c] = Camp =>
                \A dr \in {-1, 0, 1}, dc \in {-1, 0, 1} :
                    (/\ <<dr, dc>> # <<0, 0>>
                     /\ r + dr \in 1..Len(grid)
                     /\ c + dc \in 1..Len(grid[r]))
                    => grid[r + dr][c + dc] # Camp

\* C9, witness: two calls at least have placed a Camp, on a grid that held
\* a Camp already, and the last call failed.
C9_Witness ==
    /\ call.op = "set_camp" /\ ~call.result
    /\ CountTiles(input, Camp) = 1
    /\ CountTiles(grid, Camp) >= 3

\* Some cell of the 3x3 neighbourhood of (row, column) that lies inside g,
\* the centre included, holds a Camp.
CampNear(g, row, column) ==
    \E dr \in {-1, 0, 1}, dc \in {-1, 0, 1} :
        /\ row + dr \in 0..(Len(g) - 1)
        /\ column + dc \in 0..(Len(g[1]) - 1)
        /\ g[row + dr + 1][column + dc + 1] = Camp

\* C10: set_camp(row, column) returns an error exactly when some cell of the
\* 3x3 neighbourhood of (row, column) inside the grid, the centre included,
\* holds a Camp, and then the grid is the grid before the call.
C10_SetCampErrIffCampNear ==
    call.op = "set_camp" =>
        /\ ~call.result <=> CampNear(call.before, call.row, call.column)
        /\ ~call.result => grid = call.before

\* C10, witness: a call away from the top and left edges failed because of a
\* Camp on a diagonal above it, and for no other Camp.
C10_Witness ==
    /\ call.op = "set_camp" /\ ~call.result
    /\ call.row >= 1 /\ call.column >= 1
    /\ call.before[call.row][call.column] = Camp
    /\ CountTiles(call.before, Camp) = 1

\* The cell (r, c) lies in the 3x3 neighbourhood of (row, column); all four
\* are counted from 0.
Near(r, c, row, column) ==
    /\ r - row \in {-1, 0, 1}
    /\ c - column \in {-1, 0, 1}

\* C11: when set_camp(row, column) succeeds, the cell becomes Camp, every
\* Unassigned cell of its 3x3 neighbourhood becomes Grass, and every other
\* cell of the grid is as before the call.
C11_SetCampOkEffect ==
    (call.op = "set_camp" /\ call.result) =>
        /\ Len(grid) = Len(call.before)
        /\ \A r \in 1..Len(grid) :
              /\ Len(grid[r]) = Len(call.before[r])
              /\ \A c \in 1..Len(grid[r]) :
                    grid[r][c] =
                        IF <<r - 1, c - 1>> = <<call.row, call.column>>
                        THEN Camp
                        ELSE IF /\ Near(r - 1, c - 1, call.row, call.column)
                                /\ call.before[r][c] = Unassigned
                        THEN Grass
                        ELSE call.before[r][c]

\* C11, witness: a call succeeded on a cell with an Unassigned neighbour and
\* a Tree neighbour, on a grid with an Unassigned cell out of its reach.
C11_Witness ==
    /\ call.op = "set_camp" /\ call.result
    /\ \E r \in 1..Len(grid), c \in 1..Len(grid) :
          /\ Near(r - 1, c - 1, call.row, call.column)
          /\ call.before[r][c] = Unassigned /\ grid[r][c] = Grass
    /\ \E r \in 1..Len(grid), c \in 1..Len(grid) :
          /\ Near(r - 1, c - 1, call.row, call.column)
          /\ call.before[r][c] = Tree /\ grid[r][c] = Tree
    /\ \E r \in 1..Len(grid), c \in 1..Len(grid) :
          /\ ~Near(r - 1, c - 1, call.row, call.column)
          /\ grid[r][c] = Unassigned

(***************************************************************************)
(* Properties of the rules, one call at a time.                            *)
(***************************************************************************)
\* The cells of g, counted from 1 as g is indexed.
Cells(g) == (1..Len(g)) \X (1..NumColumns(g))

\* The cells the last call changed.
ChangedCells == {p \in Cells(grid) : grid[p[1]][p[2]] # call.before[p[1]][p[2]]}

\* The last call was a call of op that returned.
Called(op) == call.op = op /\ call.panic = NoPanic

\* C12: after a call of FillCamps, no cell of the 3x3 neighbourhood of a
\* Camp the call placed is Unassigned (stated for the boards that have a
\* target for each row and column of the grid, where it fails already).
C12_FillCampsForcesGrassAround ==
    (Called("fill_camps") /\ TargetsMatchGrid) =>
        \A p \in ChangedCells : \A q \in Cells(grid) :
            (grid[p[1]][p[2]] = Camp /\ Near(q[1], q[2], p[1], p[2]))
            => grid[q[1]][q[2]] # Unassigned

\* The number of tiles t in the r-th row and in the c-th column of g, both
\* counted from 1.
InRow(g, r, t) == Cardinality({c \in 1..Len(g[r]) : g[r][c] = t})
InColumn(g, c, t) == Cardinality({r \in 1..Len(g) : g[r][c] = t})

\* The row (the column) has as many Unassigned and Camp tiles together as
\* its target.
RowExact(g, r) == InRow(g, r, Unassigned) + InRow(g, r, Camp) = rows[r]
ColumnExact(g, c) ==
    /\ c \in 1..Len(columns)
    /\ InColumn(g, c, Unassigned) + InColumn(g, c, Camp) = columns[c]

\* C13: FillCamps changes a cell exactly when the cell is Unassigned on
\* entry and its row or its column has Unassigned + Camp = target on entry;
\* each such cell becomes Camp, and the call returns true exactly when a
\* cell changed.
C13_FillCampsContract ==
    Called("fill_camps") =>
        /\ \A p \in Cells(grid) :
              /\ p \in ChangedCells <=>
                    /\ call.before[p[1]][p[2]] = Unassigned
                    /\ RowExact(call.before, p[1]) \/ ColumnExact(call.before, p[2])
              /\ p \in ChangedCells => grid[p[1]][p[2]] = Camp
        /\ call.result <=> ChangedCells # {}

\* C13, on the boards that have a target for each row and column of the
\* grid: there the contract of FillCamps holds.
C13_FillCampsContractOnMatchingBoards == TargetsMatchGrid => C13_FillCampsContract

\* C13, a case of the contract on such a board.
C13_Witness ==
    /\ TargetsMatchGrid
    /\ Called("fill_camps") /\ call.result
    /\ \E p \in ChangedCells :
          /\ RowExact(call.before, p[1]) /\ ~ColumnExact(call.before, p[2])
          /\ InRow(call.before, p[1], Camp) > 0
    /\ CountTiles(grid, Unassigned) > 0

\* The row (the column) holds as many Camps as its target.
RowDone(g, r) == InRow(g, r, Camp) = rows[r]
ColumnDone(g, c) == c \in 1..Len(columns) /\ InColumn(g, c, Camp) = columns[c]

\* C14: FillZeros changes a cell exactly when the cell is Unassigned on
\* entry and its row or its column holds as many Camps as its target; each
\* such cell becomes Grass, no Camp, Tree or Grass is changed, and the call
\* returns true exactly when a cell changed.
C14_FillZerosContract ==
    Called("fill_zeros") =>
        /\ \A p \in Cells(grid) :
              /\ p \in ChangedCells <=>
                    /\ call.before[p[1]][p[2]] = Unassigned
                    /\ RowDone(call.before, p[1]) \/ ColumnDone(call.before, p[2])
              /\ p \in ChangedCells => grid[p[1]][p[2]] = Grass
              /\ call.before[p[1]][p[2]] \in {Camp, Tree, Grass}
                    => grid[p[1]][p[2]] = call.before[p[1]][p[2]]
        /\ call.result <=> ChangedCells # {}

\* C14, on the boards that have a target for each row and column of the
\* grid: there the contract of FillZeros holds.
C14_FillZerosContractOnMatchingBoards == TargetsMatchGrid => C14_FillZerosContract

\* C14, a case of the contract on such a board.
C14_Witness ==
    /\ TargetsMatchGrid
    /\ Called("fill_zeros") /\ call.result
    /\ \E p \in ChangedCells :
          /\ ~RowDone(call.before, p[1]) /\ ColumnDone(call.before, p[2])
          /\ columns[p[2]] > 0
    /\ CountTiles(grid, Unassigned) > 0

\* Some cell next to p in its row or in its column, inside g, holds a Tree.
TouchesTree(g, p) ==
    \E q \in Cells(g) :
        /\ g[q[1]][q[2]] = Tree
        /\ \/ q[1] = p[1] /\ q[2] - p[2] \in {-1, 1}
           \/ q[2] = p[2] /\ q[1] - p[1] \in {-1, 1}

\* C15: InitializeGrass sets to Grass exactly the Unassigned cells that
\* touch no Tree in the four directions, leaves every other cell as it is,
\* and returns true exactly when a cell changed.
C15_InitializeGrassContract ==
    Called("initialize_grass") =>
        /\ \A p \in Cells(grid) :
              grid[p[1]][p[2]] =
                  IF /\ call.before[p[1]][p[2]] = Unassigned
                     /\ ~TouchesTree(call.before, p)
                  THEN Grass
                  ELSE call.before[p[1]][p[2]]
        /\ call.result <=> ChangedCells # {}

\* C15, on the boards that have a target for each row and column of the
\* grid: there the contract of InitializeGrass holds.
C15_InitializeGrassContractOnMatchingBoards == TargetsMatchGrid => C15_InitializeGrassContract

\* C15, a case of the contract on such a board.
C15_Witness ==
    /\ TargetsMatchGrid
    /\ Called("initialize_grass") /\ call.result
    /\ \E p \in Cells(grid) :
          /\ grid[p[1]][p[2]] = Unassigned
          /\ p[1] > 1 /\ grid[p[1] - 1][p[2]] = Tree
    /\ \E p \in Cells(grid) :
          /\ grid[p[1]][p[2]] = Unassigned
          /\ p[2] < Len(grid) /\ grid[p[1]][p[2] + 1] = Tree

\* The possibility grids the last step of ProcessIntersections enumerated
\* for its line.
Enumerated ==
    IF call.op = "row_step"
    THEN ProcessRow(call.before,
                    rows[call.row + 1] - InRow(call.before, call.row + 1, Camp),
                    call.row, 0)
    ELSE ProcessColumn(call.before,
                       columns[call.column + 1]
                           - InColumn(call.before, call.column + 1, Camp),
                       0, call.column)

\* C16: after a row step or a column step of ProcessIntersections the grid
\* is the cell-wise intersection of the possibility grids enumerated for the
\* line: a cell holds v when every possibility holds v there and is
\* Unassigned otherwise, in every row and column of the grid.
C16_StepIsIntersection ==
    (call.op \in {"row_step", "column_step"} /\ call.panic = NoPanic) =>
        LET possibilities == Enumerated
        IN  /\ Len(grid) = Len(call.before)
            /\ \A r \in 1..Len(grid) :
                  /\ Len(grid[r]) = Len(call.before[r])
                  /\ \A c \in 1..Len(grid[r]) :
                        grid[r][c] =
                            IF \A i \in 1..Len(possibilities) :
                                   possibilities[i][r][c] = possibilities[1][r][c]
                            THEN possibilities[1][r][c]
                            ELSE Unassigned

\* C16, witness: a row step with two possibilities or more turned to Grass
\* an Unassigned cell of another row and left Unassigned a cell of its own
\* row on which the possibilities differ.
C16_Witness ==
    /\ call.op = "row_step" /\ call.panic = NoPanic
    /\ TargetsMatchGrid
    /\ Len(Enumerated) >= 2
    /\ \E p \in Cells(grid) :
          /\ p[1] # call.row + 1
          /\ call.before[p[1]][p[2]] = Unassigned
          /\ grid[p[1]][p[2]] = Grass
    /\ \E c \in 1..Len(grid) : \E i \in 1..Len(Enumerated) :
          /\ grid[call.row + 1][c] = Unassigned
          /\ Enumerated[i][call.row + 1][c] = Camp

\* The cells p and q are next to each other in a row or in a column.
Beside(p, q) ==
    \/ q[1] = p[1] /\ q[2] - p[2] \in {-1, 1}
    \/ q[2] = p[2] /\ q[1] - p[1] \in {-1, 1}

\* The table of associations AssociateTrees built in the last call.
Tagged == Associations(call.before).associations

\* Every Tree beside p, in the grid before the last call, is tagged CampAt.
TreesBesideServed(p) ==
    \A q \in Cells(call.before) :
        (Beside(p, q) /\ call.before[q[1]][q[2]] = Tree)
        => Tagged[q[1]][q[2]].tag = "CampAt"

\* C17: AssociateTrees changes a cell exactly when the cell is Unassigned
\* and every Tree beside it in the four directions is tagged CampAt; each
\* changed cell becomes Grass, and the call returns true exactly when a cell
\* changed.
C17_AssociateTreesContract ==
    Called("associate_trees") =>
        /\ \A p \in Cells(grid) :
              /\ p \in ChangedCells <=>
                    /\ call.before[p[1]][p[2]] = Unassigned
                    /\ TreesBesideServed(p)
              /\ p \in ChangedCells => grid[p[1]][p[2]] = Grass
        /\ call.result <=> ChangedCells # {}

\* C17, witness: a call turned to Grass a cell beside a Tree tagged CampAt
\* and left Unassigned a cell beside a Tree that is not.
C17_Witness ==
    /\ Called("associate_trees") /\ call.result
    /\ \E p \in ChangedCells : \E q \in Cells(grid) :
          Beside(p, q) /\ grid[q[1]][q[2]] = Tree
    /\ \E p \in Cells(grid) :
          grid[p[1]][p[2]] = Unassigned /\ ~TreesBesideServed(p)

\* The last call was a call of op right after another call of op.
CalledAgain(op) == call.op = op /\ ret \in {"repeat_changed", "repeat_idle"}

\* The last call returned false and left the grid as it was.
SecondCallIdle == call.panic = NoPanic /\ ~call.result /\ grid = call.before

\* C18 as stated: a call of ProcessIntersections right after a call of
\* ProcessIntersections returns false and leaves the grid unchanged (stated
\* for the calls that return, on boards that have a target for each row and
\* column of the grid, where it fails already).
C18_ProcessIntersectionsIdempotent ==
    (CalledAgain("process_intersections") /\ call.panic = NoPanic /\ TargetsMatchGrid)
    => SecondCallIdle

\* C18 as amended: a call of ProcessIntersections right after a call of
\* ProcessIntersections may assign further cells; when it returns, every
\* cell that was assigned after the first call has kept its value, and it
\* returns true exactly when it changed the grid.
C18_SecondCallOnlyRefines ==
    (CalledAgain("process_intersections") /\ call.panic = NoPanic) =>
        /\ Refines(call.before, grid)
        /\ call.result <=> grid # call.before

\* C18, witness: on a board with a target for each row and column, a second
\* call in a row returned true and left Unassigned cells.
C18_Witness ==
    /\ CalledAgain("process_intersections") /\ call.panic = NoPanic
    /\ TargetsMatchGrid
    /\ call.result
    /\ CountTiles(grid, Unassigned) > 0

\* C19: for each of InitializeGrass, FillZeros, FillCamps and AssociateTrees,
\* a call of the rule right after a call of the same rule returns false and
\* leaves the grid unchanged.
C19_OtherRulesIdempotent ==
    (\E op \in {"initialize_grass", "fill_zeros", "fill_camps", "associate_trees"} :
        CalledAgain(op))
    => SecondCallIdle

\* C19, witness: a second call in a row came after a first call that changed
\* the board, and the board has Camps and Unassigned cells.
C19_Witness ==
    /\ call.op \in {"initialize_grass", "fill_zeros", "fill_camps", "associate_trees"}
    /\ ret = "repeat_changed"
    /\ pc = "rules"
    /\ CountTiles(grid, Camp) > 0
    /\ CountTiles(grid, Unassigned) > 0

(***************************************************************************)
(* Properties of Board::new.                                               *)
(***************************************************************************)
\* C20: the construction of a Board succeeds exactly when rows.len() is the
\* number of rows of the grid and every row of the grid has columns.len()
\* tiles; otherwise it fails.
C20_ConstructedIffDimensionsMatch ==
    pc \in {"constructed", "panicked"} =>
        (pc = "constructed" <=>
            /\ Len(rows) = Len(grid)
            /\ \A r \in 1..Len(grid) : Len(grid[r]) = Len(columns))

(***************************************************************************)
(* Properties of Grid::parse and Grid::debug.                              *)
(***************************************************************************)
\* The characters Tile::parse knows, and the line break.
TileChars == {" ", "-", "C", "T", "\n"}

\* The positions of the text that hold a character that is no tile.
BadPositions == {i \in 1..Len(input) : input[i] \notin TileChars}

\* C21: for a text over ' ', '-', 'C', 'T' and the line break, parse
\* succeeds and debug of the parsed grid is the text; for a text with
\* another character parse fails with an error that names the first such
\* character.
C21_ParseDebugRoundTrip ==
    /\ pc \in {"parsed", "encoded"} => BadPositions = {}
    /\ pc = "encoded" => top = input
    /\ pc = "failed" =>
          /\ BadPositions # {}
          /\ \E i \in BadPositions :
                /\ \A j \in BadPositions : i <= j
                /\ ret = "Couldn't parse tile: '" \o input[i] \o "'"

\* C21, witness: a text of two lines, the first one empty, came back from
\* debug.
C21_Witness ==
    /\ pc = "encoded"
    /\ Len(input) = MaxTextLen
    /\ input[1] = "\n"
    /\ \E i \in 2..Len(input) : input[i] = "T"
    /\ Len(grid) = 2

(***************************************************************************)
(* Relations between the passes of the rules.                              *)
(***************************************************************************)
\* The two loops of fill_zeros on the grid the last call started from, the
\* loop over the columns first.
ColumnsThenRows ==
    LET b == [rows |-> rows, columns |-> columns, grid |-> call.before]
    IN  FillZerosRows(b, FillZerosColumns(b, Started(call.before), 0), 0)

\* C22: the row pass of FillZeros followed by its column pass yields the
\* same grid and the same changed result as the column pass followed by the
\* row pass (and the one order panics exactly when the other does).
C22_FillZerosPassOrder ==
    call.op = "fill_zeros" =>
        /\ Panicked(ColumnsThenRows) <=> call.panic # NoPanic
        /\ call.panic = NoPanic =>
              /\ ColumnsThenRows.grid = grid
              /\ ColumnsThenRows.changed = call.result

\* C22, witness: a call of fill_zeros in which the row pass filled a cell
\* whose column is not done and the column pass filled a cell whose row is
\* not done.
C22_Witness ==
    /\ TargetsMatchGrid
    /\ Called("fill_zeros")
    /\ \E p \in ChangedCells :
          RowDone(call.before, p[1]) /\ ~ColumnDone(call.before, p[2])
    /\ \E p \in ChangedCells :
          ~RowDone(call.before, p[1]) /\ ColumnDone(call.before, p[2])

\* The five rules of the solver.
Rules ==
    {"initialize_grass", "fill_zeros", "fill_camps", "process_intersections",
     "associate_trees"}

\* g and h have the same number of rows and the same length of each row.
SameDimensions(g, h) ==
    /\ Len(g) = Len(h)
    /\ \A r \in 1..Len(g) : Len(g[r]) = Len(h[r])

\* C23: every call of a rule leaves each Tree, Grass and Camp tile as it was
\* (only Unassigned tiles change), and leaves the dimensions of the grid and
\* the row and column targets as they were.
C23_RulesRefine ==
    [][call'.op \in Rules =>
          /\ SameDimensions(grid, grid')
          /\ \A r \in 1..Len(grid) : \A c \in 1..Len(grid[r]) :
                 grid[r][c] \in {Tree, Grass, Camp} => grid'[r][c] = grid[r][c]
          /\ rows' = rows
          /\ columns' = columns]_vars

\* C23, witness: a call of process_intersections on a grid with Trees, Grass
\* and Camps assigned new tiles and left some Unassigned.
C23_Witness ==
    /\ Called("process_intersections") /\ call.result
    /\ \A t \in {Tree, Grass, Camp} : CountTiles(call.before, t) > 0
    /\ ChangedCells # {}
    /\ CountTiles(grid, Unassigned) > 0

(***************************************************************************)
(* Properties of process_row and process_column.                           *)
(***************************************************************************)
\* The line of the last step: its length, its i-th cell (i counted from 1,
\* the cell as Grid::get counts it) and the Camps still to place on it.
LineLength ==
    IF call.op = "row_step" THEN Len(call.before[call.row + 1]) ELSE Len(call.before)

LineCell(i) ==
    IF call.op = "row_step" THEN <<call.row, i - 1>> ELSE <<i - 1, call.column>>

ToPlace ==
    IF call.op = "row_step"
    THEN rows[call.row + 1] - InRow(call.before, call.row + 1, Camp)
    ELSE columns[call.column + 1] - InColumn(call.before, call.column + 1, Camp)

\* The cells of the line that are Unassigned before the step.
LineUnassigned ==
    {i \in 1..LineLength :
        call.before[LineCell(i)[1] + 1][LineCell(i)[2] + 1] = Unassigned}

RECURSIVE PlacedFrom(_, _, _)
\* set_camp at the cells S of the line from the i-th on, in line order: ok
\* when every set_camp returned Ok, and the grid they leave.
PlacedFrom(g, S, i) ==
    IF i > LineLength THEN [ok |-> TRUE, grid |-> g]
    ELSE IF i \in S
    THEN LET b == SetCamp(g, LineCell(i)[1], LineCell(i)[2])
         IN  IF b.ok THEN PlacedFrom(b.grid, S, i + 1) ELSE [ok |-> FALSE, grid |-> g]
    ELSE PlacedFrom(g, S, i + 1)

\* The subsets of the Unassigned cells of the line, of the size still to
\* place, whose Camps set_camp places in line order.
LegalSubsets ==
    {S \in SUBSET LineUnassigned :
        Cardinality(S) = ToPlace /\ PlacedFrom(call.before, S, 1).ok}

\* The last step enumerated the possibilities of its line (it did not panic
\* before: the line has no more Camps than its target and lies in the grid).
EnumeratedLine ==
    /\ call.op \in {"row_step", "column_step"}
    /\ call.panic \in {NoPanic, UnwrapPanic}

\* C24: process_row and process_column collect one possibility grid for
\* every subset of the Unassigned cells of the line, of the size still to
\* place, whose Camps set_camp places in line order, and no other grid; with
\* nothing to place the only possibility is the input grid.
C24_EnumeratesLegalSubsets ==
    EnumeratedLine =>
        /\ Len(Enumerated) = Cardinality(LegalSubsets)
        /\ {Enumerated[i] : i \in 1..Len(Enumerated)}
               = {PlacedFrom(call.before, S, 1).grid : S \in LegalSubsets}
        /\ ToPlace = 0 => Enumerated = <<call.before>>

\* C24, witness: a row with two Camps to place and three Unassigned cells
\* has one legal subset, the subsets with two cells side by side are pruned.
C24_Witness ==
    /\ EnumeratedLine /\ call.op = "row_step"
    /\ ToPlace = 2
    /\ Cardinality(LineUnassigned) = 3
    /\ Cardinality(LegalSubsets) = 1
    /\ Len(Enumerated) = 1

(***************************************************************************)
(* Properties of the associations table.                                   *)
(***************************************************************************)
\* The Trees beside the cell p of g, cells counted from 1.
TreesBeside(g, p) == {q \in Cells(g) : Beside(p, q) /\ g[q[1]][q[2]] = Tree}

\* The last call was a call of associate_trees whose first pair of loops ran
\* to its end.
Associated == call.op = "associate_trees" /\ call.panic = NoPanic

\* C25: when the first pass of AssociateTrees has run over every cell, no
\* cell is tagged Unprocessed and each cell was expanded once at most; a
\* Tree is tagged CampAt(r, c) only if (r, c) is a Camp beside it whose only
\* Tree neighbour it is, and that Camp is tagged NoTree; a Camp with two
\* Tree neighbours or more is tagged UnassignedCamp and no Tree is tagged
\* with it; a Grass or Unassigned cell is tagged NoTree.
C25_AssociationsTable ==
    Associated =>
        LET g == call.before
            built == Associations(g)
            tag(p) == built.associations[p[1]][p[2]]
        IN  /\ \A p \in Cells(g) : tag(p) # [tag |-> "Unprocessed"]
            /\ \A i, j \in 1..Len(built.expanded) :
                   built.expanded[i] = built.expanded[j] => i = j
            /\ \A p \in Cells(g) :
                   (g[p[1]][p[2]] = Tree /\ tag(p).tag = "CampAt") =>
                       LET q == <<tag(p).row + 1, tag(p).column + 1>>
                       IN  /\ q \in Cells(g)
                           /\ g[q[1]][q[2]] = Camp
                           /\ Beside(p, q)
                           /\ TreesBeside(g, q) = {p}
                           /\ tag(q) = [tag |-> "NoTree"]
            /\ \A p \in Cells(g) :
                   (g[p[1]][p[2]] = Camp /\ Cardinality(TreesBeside(g, p)) >= 2) =>
                       /\ tag(p) = [tag |-> "UnassignedCamp"]
                       /\ \A q \in Cells(g) :
                              tag(q) # [tag |-> "CampAt", row |-> p[1] - 1,
                                        column |-> p[2] - 1]
            /\ \A p \in Cells(g) :
                   g[p[1]][p[2]] \in {Grass, Unassigned} => tag(p) = [tag |-> "NoTree"]

\* C25, witness: the table of a grid with a Tree tagged with its Camp and
\* a second Tree.
C25_Witness ==
    /\ Associated
    /\ CountTiles(call.before, Tree) = 2
    /\ \E p \in Cells(call.before) :
          Associations(call.before).associations[p[1]][p[2]].tag = "CampAt"

(***************************************************************************)
(* Properties of the assertions of associate_tree.                         *)
(***************************************************************************)
\* Every Camp of g has a Tree beside it.
CampsBesideTrees(g) ==
    \A p \in Cells(g) : g[p[1]][p[2]] = Camp => TreesBeside(g, p) # {}

\* C26: during solve started from a grid without Camps, every Camp on the
\* grid has a Tree beside it, and the assertion of associate_tree that a
\* Camp has between 1 and 4 Tree neighbours does not fail.
C26_PlacedCampsBesideTrees ==
    CountTiles(input, Camp) = 0 =>
        /\ CampsBesideTrees(grid)
        /\ call.panic # AssertTreesPanic

\* C26 on the boards that have a target for each row and column of the grid.
C26_PlacedCampsBesideTreesOnMatchingBoards ==
    TargetsMatchGrid => C26_PlacedCampsBesideTrees

\* C26, witness: solve placed Camps on such a board and came to
\* associate_trees with them.
C26_Witness ==
    /\ TargetsMatchGrid
    /\ CountTiles(input, Camp) = 0
    /\ CountTiles(grid, Camp) >= 2
    /\ call.op = "associate_trees" /\ call.panic = NoPanic

\* C27: when AssociateTrees runs on a grid in which no two Camps touch
\* (diagonals included) and every Camp has a Tree beside it, the assert_eq
\* of associate_tree does not fail: the one Tree beside a Camp is tagged
\* NoCampAssociated when the Camp is processed (stated for the boards that
\* have a target for each row and column of the grid, where it fails
\* already).
C27_NoTreeClaimedTwice ==
    (/\ call.op = "associate_trees"
     /\ TargetsMatchGrid
     /\ NoAdjacentCamps(call.before)
     /\ CampsBesideTrees(call.before))
    => call.panic # AssertEqPanic

(***************************************************************************)
(* The solutions of a board.                                               *)
(***************************************************************************)
\* The cells of g that hold t.
CellsOf(g, t) == {p \in Cells(g) : g[p[1]][p[2]] = t}

\* g with a Camp on the cells of S and Grass on its other Unassigned cells.
Completed(g, S) ==
    [r \in 1..Len(g) |-> [c \in 1..Len(g[r]) |->
        IF g[r][c] # Unassigned THEN g[r][c]
        ELSE IF <<r, c>> \in S THEN Camp ELSE Grass]]

\* The complete assignments that agree with g on its assigned cells and
\* have as many Camps as the rows ask for in all.
Completions(g) ==
    {Completed(g, S) :
        S \in {T \in SUBSET CellsOf(g, Unassigned) :
                  Cardinality(T) + Cardinality(CellsOf(g, Camp)) = Sum(rows)}}

\* s meets the target of every row and of every column; a target for a
\* column the grid does not have is met when it is 0.
MeetsTargets(s) ==
    /\ \A r \in 1..Len(rows) : InRow(s, r, Camp) = rows[r]
    /\ \A c \in 1..Len(columns) :
           IF c <= NumColumns(s) THEN InColumn(s, c, Camp) = columns[c]
           ELSE columns[c] = 0

\* The Camps of s can be matched one to one with Trees beside them.
Matched(s) ==
    \E f \in [CellsOf(s, Camp) -> CellsOf(s, Tree)] :
        /\ \A p \in CellsOf(s, Camp) : Beside(p, f[p])
        /\ \A p, q \in CellsOf(s, Camp) : f[p] = f[q] => p = q

\* The valid solutions that agree with g on its assigned cells.
Solutions(g) ==
    {s \in Completions(g) : MeetsTargets(s) /\ NoAdjacentCamps(s) /\ Matched(s)}

\* C28: a valid solution that agrees with the grid on every assigned cell
\* before a call of a rule agrees with the grid on every assigned cell after
\* the call.
C28_RulesKeepSolutions ==
    (call.op \in Rules /\ call.panic = NoPanic) =>
        \A s \in Solutions(call.before) : Refines(grid, s)

\* C28 on the boards that have a target for each row and column of the grid.
C28_RulesKeepSolutionsOnMatchingBoards ==
    TargetsMatchGrid => C28_RulesKeepSolutions

\* C28, witness: a call of a rule assigned cells of a board that has two
\* valid solutions and left both of them possible.
C28_Witness ==
    /\ TargetsMatchGrid
    /\ call.op \in Rules /\ call.panic = NoPanic
    /\ ChangedCells # {}
    /\ Cardinality(Solutions(call.before)) >= 2
    /\ Cardinality(Solutions(grid)) >= 2

(***************************************************************************)
(* Properties of Grid::surrounding_tiles.                                  *)
(***************************************************************************)
\* The cell p, as Grid::get counts it, is a cell of g.
InBounds(g, p) ==
    /\ p[1] >= 0 /\ p[1] < Len(g)
    /\ p[2] >= 0 /\ p[2] < Len(g[p[1] + 1])

\* The in-bounds cells among the four cells around (row, column), in the
\* order above, left, right, below.
InBoundsAround(g, row, column) ==
    LET Inside(p) == InBounds(g, p)
    IN  SelectSeq(<<(<<row - 1, column>>), (<<row, column - 1>>),
                    (<<row, column + 1>>), (<<row + 1, column>>)>>, Inside)

\* The number of cells around (row, column): 2 at a corner, 3 on an edge, 4
\* in the interior.
CountAround(g, row, column) ==
    LET onRowEdge == row = 0 \/ row = Len(g) - 1
        onColumnEdge == column = 0 \/ column = Len(g[row + 1]) - 1
    IN  IF onRowEdge /\ onColumnEdge THEN 2
        ELSE IF onRowEdge \/ onColumnEdge THEN 3
        ELSE 4

\* The last call of surrounding_tiles returned.
Surrounded == call.op = "surrounding_tiles" /\ call.panic = NoPanic

\* What the last call returned is the in-bounds cells around its cell, in
\* order and without duplicates.
ReturnsInBoundsAround ==
    /\ top = InBoundsAround(grid, call.row, call.column)
    /\ \A i, j \in 1..Len(top) : top[i] = top[j] => i = j

Rectangular(g) == \A r \in 1..Len(g) : Len(g[r]) = Len(g[1])

\* The four cells around (row, column): above, left, right, below.
Around(row, column) ==
    <<(<<row - 1, column>>), (<<row, column - 1>>),
      (<<row, column + 1>>), (<<row + 1, column>>)>>

====
